---- MODULE Spec2Model ----
(***************************************************************************)
(* A model of src/src/main.rs (khollbach/1brc): the file is partitioned    *)
(* into n newline-aligned ranges (chunks), one thread per range scans its  *)
(* records (chunk_stats, split_once, parse_f32), main joins the threads in *)
(* spawn order and folds their tables into one (Stats::merge), and         *)
(* print_stats emits the sorted result.                                    *)
(*                                                                         *)
(* Bytes are their integer codes.  An f32 is the pair of an odd mantissa    *)
(* and a binary exponent, and f32 addition, multiplication and division    *)
(* round to 24 bits, to nearest, ties to even, as the machine does.  A     *)
(* claim about values "as integer tenths" reads an f32 through Tenths, the *)
(* nearest number of tenths, which is also what {:.1} prints.              *)
(***************************************************************************)
EXTENDS Integers, Sequences, FiniteSets, TLC

VARIABLES
    file,      \* the bytes of the input file (read-only)
    n,         \* num_threads
    mainpc,    \* where main is: "chunks", "spawn", "join", "print", "done", "failed"
    ranges,    \* the Vec<(u64, u64)> returned by chunks
    spawned,   \* number of threads spawned so far (threads.len())
    wpc,       \* per thread: "unspawned", "running", "ok", "err_semicolon", "err_parse", "panicked"
    woff,      \* per thread: curr_offset
    wstats,    \* per thread: its local HashMap<Vec<u8>, Stats>
    joinidx,   \* index of the next thread main joins
    stats,     \* main's global HashMap<Vec<u8>, Stats>
    result,    \* how the run ended: "none" while running, "ok", or the failure
    out,       \* what was written to standard output: <<>> or <<line>>
    lit,       \* parser harness: the byte slice handed to parse_f32
    parsed,    \* parser harness: what parse_f32 made of it
    abc,       \* merge harness: three tables A, B, C
    folded     \* merge harness: the tables folded in each grouping and order

vars == <<file, n, mainpc, ranges, spawned, wpc, woff, wstats, joinidx, stats,
          result, out, lit, parsed, abc, folded>>

mainvars == <<file, n, mainpc, ranges, spawned, wpc, woff, wstats, joinidx,
              stats, result, out>>

\* ------------------------------------------------------------------ bounds

\* Most records in an input file.
MaxLines == 3

\* Most worker threads (available_parallelism).
MaxThreads == 3

\* Longest byte slice of arbitrary bytes handed to the parser harness.
MaxLitLen == 5

\* ------------------------------------------------------------------ bytes

NL == 10
SEMI == 59
MINUS == 45
DOT == 46

\* ------------------------------------------------------------------- f32

\* The powers of two below 2^31, 2^k at index k + 1.
POW2 ==
    << 1, 2, 4, 8, 16, 32, 64, 128, 256, 512, 1024, 2048, 4096, 8192, 16384,
       32768, 65536, 131072, 262144, 524288, 1048576, 2097152, 4194304,
       8388608, 16777216, 33554432, 67108864, 134217728, 268435456,
       536870912, 1073741824 >>

Pow2(k) == IF k <= 0 THEN 1 ELSE POW2[k + 1]

\* x >= 2^k, for 0 <= x < 2^31.
AtLeastPow2(x, k) == k <= 30 /\ x >= POW2[k + 1]

\* The number of bits of x, 0 <= x < 2^31: the exponent of its leading bit
\* found by halving the interval, plus one.
BitLen(x) ==
    LET a == IF AtLeastPow2(x, 16) THEN 16 ELSE 0
        b == IF AtLeastPow2(x, a + 8) THEN a + 8 ELSE a
        c == IF AtLeastPow2(x, b + 4) THEN b + 4 ELSE b
        d == IF AtLeastPow2(x, c + 2) THEN c + 2 ELSE c
    IN  IF x = 0 THEN 0
        ELSE IF AtLeastPow2(x, d + 1) THEN d + 2 ELSE d + 1

Abs(x) == IF x < 0 THEN -x ELSE x

\* The f32 m * 2^e, written with m odd (0 is m = 0, e = 0).  Zero has no
\* sign, and there are no infinities, NaNs or subnormals: none arises from
\* values in [-99.9, 99.9] and the counts of the model.
RECURSIVE F32(_, _)
F32(m, e) ==
    IF m = 0 THEN [m |-> 0, e |-> 0]
    ELSE IF m % 256 = 0 THEN F32(m \div 256, e + 8)
    ELSE IF m % 16 = 0 THEN F32(m \div 16, e + 4)
    ELSE IF m % 2 = 0 THEN F32(m \div 2, e + 1)
    ELSE [m |-> m, e |-> e]

Sign(m) == IF m < 0 THEN -1 ELSE IF m = 0 THEN 0 ELSE 1

\* x with its mantissa shifted left by k bits.
shifted(x, k) == [m |-> x.m * Pow2(k), e |-> x.e - k]

\* The same value with a mantissa of exactly 24 bits.
Left(x) == shifted(x, 24 - BitLen(Abs(x.m)))

\* i + rho/den, with 0 <= rho < den, rounded to the nearest integer, ties
\* to even.
RoundHalfEven(i, rho, den) ==
    IF 2 * rho > den \/ (2 * rho = den /\ i % 2 = 1) THEN i + 1 ELSE i

\* The sum S + r / 2^d of two aligned mantissas, scaled by 2^i.
add_scaled(S, r, d, i) == S * Pow2(i) + (r \div Pow2(d - i))

\* The shift: the bits the sum is short of 24, at most the d bits there
\* are below it.
add_shift(S, d) ==
    IF 24 - BitLen(Abs(S)) < d THEN 24 - BitLen(Abs(S)) ELSE d

add_norm(S, r, d, sg, e, j) ==
    F32(sg * RoundHalfEven(add_scaled(S, r, d, j), r % Pow2(d - j), Pow2(d - j)), e - j)

\* The sum has a 25th bit: one bit more is rounded away.
add_carry(S, r, D, sg, e) ==
    F32(sg * RoundHalfEven(S \div 2, (S % 2) * D + r, 2 * D), e + 1)

add_sum(S, r, d, sg, e) ==
    IF S >= 16777216 THEN add_carry(S, r, Pow2(d), sg, e)
    ELSE add_norm(S, r, d, sg, e, add_shift(S, d))

\* mx * 2^e + my * 2^(e - d), mx > 0.
add_mag(mx, my, d, sg, e) == add_sum(mx + (my \div Pow2(d)), my % Pow2(d), d, sg, e)

\* hi + lo, the exponent of hi the greater; a lo below the rounding bit of
\* hi is absorbed.
add_ordered(hi, lo) ==
    IF hi.e - lo.e > 26 THEN F32(hi.m, hi.e)
    ELSE add_mag(Sign(hi.m) * hi.m, Sign(hi.m) * lo.m, hi.e - lo.e, Sign(hi.m), hi.e)

add_left(a, b) == IF a.e >= b.e THEN add_ordered(a, b) ELSE add_ordered(b, a)

\* x + y in f32: the exact sum rounded to 24 bits.
f32_add(x, y) ==
    IF x.m = 0 THEN y
    ELSE IF y.m = 0 THEN x
    ELSE add_left(Left(x), Left(y))

mul_round(P, t, sg, e) ==
    F32(sg * RoundHalfEven(P \div Pow2(t), P % Pow2(t), Pow2(t)), e + t)

mul_left(k, a) == mul_round(k * Abs(a.m), BitLen(k * Abs(a.m)) - 24, Sign(a.m), a.e)

\* (k as f32) * x in f32, for an integer 0 <= k < 128.
f32_mul_int(k, x) ==
    IF k = 0 \/ x.m = 0 THEN F32(0, 0) ELSE mul_left(k, Left(x))

div_round(N, c, sg, e) ==
    IF N \div c >= 16777216
    THEN F32(sg * RoundHalfEven(N \div (2 * c), N % (2 * c), 2 * c), e + 1)
    ELSE F32(sg * RoundHalfEven(N \div c, N % c, c), e)

div_left(a, c, s) == div_round(Abs(a.m) * Pow2(s), c, Sign(a.m), a.e - s)

\* x / (c as f32) in f32, for an integer 1 <= c < 64.
f32_div_int(x, c) ==
    IF x.m = 0 THEN F32(0, 0) ELSE div_left(Left(x), c, BitLen(c))

f32_neg(x) == [m |-> -x.m, e |-> x.e]

lt_same_sign(sg, a, b) ==
    IF sg = 0 THEN FALSE
    ELSE IF sg = 1 THEN a.e < b.e \/ (a.e = b.e /\ a.m < b.m)
    ELSE a.e > b.e \/ (a.e = b.e /\ a.m < b.m)

\* x < y
f32_lt(x, y) ==
    IF Sign(x.m) # Sign(y.m) THEN Sign(x.m) < Sign(y.m)
    ELSE lt_same_sign(Sign(x.m), Left(x), Left(y))

\* The f32 nearest to 0.1, the literal `0.1` of parse_f32.
F32_TENTH == [m |-> 13421773, e |-> -27]

\* f32::MAX, (2^24 - 1) * 2^104; f32::MIN is its negation.
F32_MAX == [m |-> 16777215, e |-> 104]

tenths_round(sg, N, D) == sg * RoundHalfEven(N \div D, N % D, D)

\* {:.1}: the decimal with one fractional digit nearest to x (ties to
\* even), as its number of tenths.  The sign of a printed -0.0 is dropped.
Tenths(x) ==
    IF x.e >= 0 THEN 10 * x.m * Pow2(x.e)
    ELSE IF -x.e > 29 THEN 0
    ELSE tenths_round(Sign(x.m), 10 * Abs(x.m), Pow2(-x.e))

\* ------------------------------------------------------------ Option<T>

None == [some |-> FALSE, val |-> 0]

Some(v) == [some |-> TRUE, val |-> v]

\* ----------------------------------------------------------- the reader

\* BufRead::read_until(b'\n') on a reader positioned at byte offset pos:
\* the number of bytes read, up to and including the next newline, or up to
\* the end of the file; 0 at the end of the file.
RECURSIVE read_until(_, _)
read_until(f, pos) ==
    IF pos >= Len(f) THEN 0
    ELSE IF f[pos + 1] = NL THEN 1
    ELSE 1 + read_until(f, pos + 1)

\* ---------------------------------------------------------------- chunks

\* Mutant of boundary: the offset advanced to the newline, not past it.
boundary_at_newline(f, offset) ==
    IF read_until(f, offset) = 0 THEN offset ELSE offset + read_until(f, offset) - 1

\* Mutant of boundary: the offset itself, wherever in a line it falls.
boundary_unaligned(f, offset) == offset

\* An interior boundary: the offset advanced past the rest of its line.
boundary(f, offset) == offset + read_until(f, offset)

\* The boundaries vector of chunks: 0, the n-1 interior boundaries, len.
boundaries(f, k) ==
    LET len == Len(f)
    IN  [j \in 1..(k + 1) |->
            IF j = 1 THEN 0
            ELSE IF j = k + 1 THEN len
            ELSE boundary(f, (len * (j - 1)) \div k)]

\* chunks: the consecutive pairs of boundaries (tuple_windows).
chunks(f, k) ==
    LET b == boundaries(f, k)
    IN  [i \in 1..k |-> <<b[i], b[i + 1]>>]

\* ------------------------------------------------------------ split_once

RECURSIVE position(_, _, _)
position(s, delim, i) ==
    IF i > Len(s) THEN 0
    ELSE IF s[i] = delim THEN i
    ELSE position(s, delim, i + 1)

\* split_once: None, or the bytes before and after the first delim.
split_once(s, delim) ==
    LET i == position(s, delim, 1)
    IN  IF i = 0 THEN None
        ELSE Some(<<SubSeq(s, 1, i - 1), SubSeq(s, i + 1, Len(s))>>)

\* ------------------------------------------------------------- parse_f32

\* to_digit: (c as char).to_digit(10), the digit value of '0'..'9'.
to_digit(c) == IF c >= 48 /\ c <= 57 THEN Some(c - 48) ELSE None

ParseIdle == [kind |-> "idle", val |-> F32(0, 0)]

ParseNone == [kind |-> "none", val |-> F32(0, 0)]

ParseSome(v) == [kind |-> "some", val |-> v]

ParsePanic == [kind |-> "panic", val |-> F32(0, 0)]

\* The first byte test of parse_f32, `s[0] == b'-'`: indexing an empty
\* slice panics.
first_byte_ok(s) == Len(s) > 0

\* The magnitude of d.d, `x * 1. + y * 0.1`.
magnitude3(x, y) == f32_add(f32_mul_int(x, F32(1, 0)), f32_mul_int(y, F32_TENTH))

\* Mutant of magnitude4: the tens digit weighed as units and the units
\* digit as tens.
magnitude4_swapped(a, b, c) ==
    f32_add(f32_add(f32_mul_int(a, F32(1, 0)), f32_mul_int(b, F32(10, 0))),
            f32_mul_int(c, F32_TENTH))

\* The magnitude of dd.d, `a * 10. + b * 1. + c * 0.1`.
magnitude4(a, b, c) ==
    f32_add(f32_add(f32_mul_int(a, F32(10, 0)), f32_mul_int(b, F32(1, 0))),
            f32_mul_int(c, F32_TENTH))

\* `minus * magnitude`, minus being 1. or -1.
signed(minus, magnitude) == [m |-> minus * magnitude.m, e |-> magnitude.e]

\* parse_f32: a panic, None, or Some of the value.
parse_f32(s0) ==
    IF ~first_byte_ok(s0) THEN ParsePanic
    ELSE
        LET neg == s0[1] = MINUS
            s == IF neg THEN Tail(s0) ELSE s0
            minus == IF neg THEN -1 ELSE 1
        IN  IF Len(s) = 3 THEN
                IF s[2] # DOT THEN ParseNone
                ELSE LET x == to_digit(s[1])
                         y == to_digit(s[3])
                     IN  IF ~x.some \/ ~y.some THEN ParseNone
                         ELSE ParseSome(signed(minus, magnitude3(x.val, y.val)))
            ELSE IF Len(s) = 4 THEN
                IF s[3] # DOT THEN ParseNone
                ELSE LET a == to_digit(s[1])
                         b == to_digit(s[2])
                         c == to_digit(s[4])
                     IN  IF ~a.some \/ ~b.some \/ ~c.some THEN ParseNone
                         ELSE ParseSome(signed(minus, magnitude4(a.val, b.val, c.val)))
            ELSE ParseNone

\* ----------------------------------------------------------------- Stats

f32_min(a, b) == IF f32_lt(b, a) THEN b ELSE a

f32_max(a, b) == IF f32_lt(a, b) THEN b ELSE a

\* Mutant of default: the derived Default, every field zero.
default_zeroed == [min |-> F32(0, 0), max |-> F32(0, 0), sum |-> F32(0, 0), count |-> 0]

default == [min |-> F32_MAX, max |-> f32_neg(F32_MAX), sum |-> F32(0, 0), count |-> 0]

\* Mutant of singleton: the value is left out of the sum.
singleton_sum_zero(value) == [min |-> value, max |-> value, sum |-> F32(0, 0), count |-> 1]

singleton(value) == [min |-> value, max |-> value, sum |-> value, count |-> 1]

\* Mutant of merge: the count goes up by one per merge, not by the number
\* of records merged.
merge_count_once(self, other) ==
    [min |-> IF f32_lt(other.min, self.min) THEN other.min ELSE self.min,
     max |-> IF f32_lt(self.max, other.max) THEN other.max ELSE self.max,
     sum |-> f32_add(self.sum, other.sum),
     count |-> self.count + 1]

merge(self, other) ==
    [min |-> f32_min(self.min, other.min),
     max |-> f32_max(self.max, other.max),
     sum |-> f32_add(self.sum, other.sum),
     count |-> self.count + other.count]

update(self, value) == merge(self, singleton(value))

\* An empty HashMap.
EmptyTable == [k \in {} |-> default]

\* ----------------------------------------------------------- chunk_stats

\* Mutant of in_range: the loop goes on while the offset is at the end.
in_range_inclusive(off, end) == off <= end

\* `while curr_offset < end`
in_range(off, end) == off < end

\* Mutant of strip_newline: the last byte is dropped whatever it is.
strip_last_byte(line) == SubSeq(line, 1, Len(line) - 1)

\* `if line.ends_with(b"\n") { line.pop(); }`
strip_newline(line) ==
    IF Len(line) > 0 /\ line[Len(line)] = NL
    THEN SubSeq(line, 1, Len(line) - 1)
    ELSE line

\* Mutant of advance: the offset is left where it was.
advance_stuck(off, nread) == off

\* `curr_offset += n`
advance(off, nread) == off + nread

\* One evaluation of the loop of chunk_stats by a thread at offset off with
\* table t over the range ending at end: the loop is left (the thread
\* returns its table), or one record is read and accounted for, or the
\* thread fails on it.
chunk_step(f, end, off, t) ==
    IF ~in_range(off, end) THEN [pc |-> "ok", off |-> off, stats |-> t]
    ELSE
        LET nread == read_until(f, off)
        IN  IF nread = 0 THEN [pc |-> "ok", off |-> off, stats |-> t]
            ELSE
                LET raw == SubSeq(f, off + 1, off + nread)
                    line == strip_newline(raw)
                    sp == split_once(line, SEMI)
                    next == advance(off, nread)
                IN  IF ~sp.some
                    THEN [pc |-> "err_semicolon", off |-> next, stats |-> t]
                    ELSE
                        LET name == sp.val[1]
                            value == parse_f32(sp.val[2])
                        IN  IF value.kind = "panic"
                            THEN [pc |-> "panicked", off |-> next, stats |-> t]
                            ELSE IF value.kind = "none"
                            THEN [pc |-> "err_parse", off |-> next, stats |-> t]
                            ELSE [pc |-> "running", off |-> next,
                                  stats |->
                                    IF name \in DOMAIN t
                                    THEN [t EXCEPT ![name] = update(t[name], value.val)]
                                    ELSE [k \in DOMAIN t \cup {name} |->
                                            IF k = name THEN singleton(value.val)
                                            ELSE t[k]]]

\* chunk_stats run to its end on the range (start, end): how it ends and
\* the table it built.
RECURSIVE chunk_loop(_, _, _, _)
chunk_loop(f, end, off, t) ==
    LET s == chunk_step(f, end, off, t)
    IN  IF s.pc = "running" THEN chunk_loop(f, end, s.off, s.stats) ELSE s

chunk_stats(f, range) == chunk_loop(f, range[2], range[1], EmptyTable)

\* ------------------------------------------------------------------ main

\* The fold of main, lines 36-38: each entry of a thread's table is merged
\* into the global entry of its key, a default entry when there is none.
merge_table(g, t) ==
    [k \in DOMAIN g \cup DOMAIN t |->
        IF k \in DOMAIN t
        THEN merge(IF k \in DOMAIN g THEN g[k] ELSE default, t[k])
        ELSE g[k]]

Finished == {"ok", "err_semicolon", "err_parse", "panicked"}

\* Mutant of join_ready: main does not wait for the thread to end.
join_ready_nowait(i) == wpc[i] # "unspawned"

\* JoinHandle::join returns once the thread has ended.
join_ready(i) == wpc[i] \in Finished

\* Mutant of join_target: the threads are joined last spawned first.
join_target_reversed(j) == n + 1 - j

\* `for t in threads`: the j-th join is of the j-th thread spawned.
join_target(j) == j

\* Mutant of join_outcome: a returned error is dropped and the thread's
\* table is used as it is.
join_outcome_ignore_err(pc) == IF pc = "panicked" THEN "panic" ELSE "table"

\* Mutant of join_outcome: the panic of a thread is swallowed and what the
\* thread had built is used.
join_outcome_ignore_panic(pc) ==
    IF pc \in {"err_semicolon", "err_parse"} THEN "err" ELSE "table"

\* Mutant of join_outcome: a missing ';' is not taken as a failure and the
\* thread's table is used as it is.
join_outcome_semicolon_ok(pc) ==
    IF pc = "panicked" THEN "panic"
    ELSE IF pc = "err_parse" THEN "err"
    ELSE "table"

\* `t.join().expect("thread panic")?` on a thread that ended in pc: main
\* panics, or returns the thread's error, or holds the thread's table.
join_outcome(pc) ==
    IF pc = "panicked" THEN "panic"
    ELSE IF pc \in {"err_semicolon", "err_parse"} THEN "err"
    ELSE "table"

\* ----------------------------------------------------------- print_stats

\* str::from_utf8 on the bytes of the model (ASCII and 0xFF): a byte above
\* 0x7F that starts no well-formed sequence is an error.
from_utf8_ok(name) == \A i \in 1..Len(name) : name[i] < 128

\* The order of &str (and of [u8]): lexicographic by byte.
RECURSIVE bytes_lt(_, _)
bytes_lt(a, b) ==
    IF Len(b) = 0 THEN FALSE
    ELSE IF Len(a) = 0 THEN TRUE
    ELSE IF a[1] < b[1] THEN TRUE
    ELSE IF a[1] > b[1] THEN FALSE
    ELSE bytes_lt(Tail(a), Tail(b))

\* Mutant of sort_keys: the keys in descending order.
RECURSIVE sort_keys_descending(_)
sort_keys_descending(S) ==
    IF S = {} THEN <<>>
    ELSE LET m == CHOOSE k \in S : \A j \in S : j = k \/ bytes_lt(j, k)
         IN  <<m>> \o sort_keys_descending(S \ {m})

\* pairs.sort_unstable_by_key(name): the keys in ascending order.
RECURSIVE sort_keys(_)
sort_keys(S) ==
    IF S = {} THEN <<>>
    ELSE LET m == CHOOSE k \in S : \A j \in S : j = k \/ bytes_lt(k, j)
         IN  <<m>> \o sort_keys(S \ {m})

\* Mutant of avg: the sum is not divided by the count.
avg_undivided(st) == st.sum

avg(st) == f32_div_int(st.sum, st.count)

\* Display for Stats: "{:.1}/{:.1}/{:.1}" of min, avg and max, each as the
\* number of tenths printed.
fmt(st) == [min |-> Tenths(st.min), avg |-> Tenths(avg(st)), max |-> Tenths(st.max)]

\* The line print_stats writes: the entries name=min/avg/max in key order.
print_line(t) ==
    LET ks == sort_keys(DOMAIN t)
    IN  [i \in 1..Len(ks) |-> [name |-> ks[i], stat |-> fmt(t[ks[i]])]]

\* Mutant of print_stats: entries are written as their keys decode, so a
\* key that fails leaves the entries before it written.
print_stats_lazy(t) ==
    IF \A k \in DOMAIN t : from_utf8_ok(k)
    THEN [ok |-> TRUE, written |-> <<print_line(t)>>]
    ELSE [ok |-> FALSE,
          written |-> <<print_line([k \in { j \in DOMAIN t : from_utf8_ok(j) } |-> t[k]])>>]

\* print_stats: every key is decoded (try_collect) before anything is
\* written; a key that does not decode fails the call with nothing written.
print_stats(t) ==
    IF \A k \in DOMAIN t : from_utf8_ok(k)
    THEN [ok |-> TRUE, written |-> <<print_line(t)>>]
    ELSE [ok |-> FALSE, written |-> <<>>]

\* ---------------------------------------------------------------- inputs

\* The records of the input files: well-formed ones over two keys, and
\* one of each malformed kind.
Records ==
    { <<97, 59, 45, 49, 48, 46, 48>>,    \* a;-10.0
      <<97, 59, 50, 46, 49>>,            \* a;2.1
      <<97, 59, 49, 48, 46, 48>>,        \* a;10.0
      <<98, 59, 45, 50, 46, 53>>,        \* b;-2.5
      <<97, 59>>,                        \* a;      (empty value)
      <<97, 59, 49, 50>>,                \* a;12    (no fractional digit)
      <<255, 59, 48, 46, 57>>,           \* 0xFF;0.9 (key is not UTF-8)
      <<>> }                             \* a blank line (no semicolon)

RECURSIVE file_of(_, _)
file_of(recs, trailing) ==
    IF Len(recs) = 0 THEN <<>>
    ELSE IF Len(recs) = 1 THEN recs[1] \o (IF trailing THEN <<NL>> ELSE <<>>)
    ELSE recs[1] \o <<NL>> \o file_of(Tail(recs), trailing)

Files ==
    { file_of(rs, t) :
        rs \in UNION { [1..k -> Records] : k \in 0..MaxLines }, t \in BOOLEAN }

\* The merge harness before its tables are folded.
FoldIdle ==
    [done |-> FALSE, left |-> EmptyTable, right |-> EmptyTable,
     ab |-> EmptyTable, ba |-> EmptyTable, ident |-> EmptyTable]

\* ----------------------------------------------------------- the program

Init ==
    /\ file \in Files
    /\ n \in 1..MaxThreads
    /\ mainpc = "chunks"
    /\ ranges = <<>>
    /\ spawned = 0
    /\ wpc = [i \in 1..n |-> "unspawned"]
    /\ woff = [i \in 1..n |-> 0]
    /\ wstats = [i \in 1..n |-> EmptyTable]
    /\ joinidx = 1
    /\ stats = EmptyTable
    /\ result = "none"
    /\ out = <<>>
    /\ lit = <<>>
    /\ parsed = ParseIdle
    /\ abc = <<>>
    /\ folded = FoldIdle

\* main, line 24: the ranges are computed.
MainChunks ==
    /\ mainpc = "chunks"
    /\ ranges' = chunks(file, n)
    /\ mainpc' = "spawn"
    /\ UNCHANGED <<file, n, spawned, wpc, woff, wstats, joinidx, stats, result,
                   out, lit, parsed, abc, folded>>

\* main, lines 27-31: the next thread is spawned on its range; it seeks to
\* the start of the range.
MainSpawn ==
    /\ mainpc = "spawn"
    /\ LET i == spawned + 1
       IN  /\ wpc' = [wpc EXCEPT ![i] = "running"]
           /\ woff' = [woff EXCEPT ![i] = ranges[i][1]]
           /\ spawned' = i
           /\ mainpc' = IF i = n THEN "join" ELSE "spawn"
    /\ UNCHANGED <<file, n, ranges, wstats, joinidx, stats, result, out, lit,
                   parsed, abc, folded>>

\* A thread evaluates the loop of chunk_stats once.  Threads run while the
\* process does: main's return ends them.
WorkerStep(i) ==
    /\ mainpc \notin {"done", "failed"}
    /\ wpc[i] = "running"
    /\ LET s == chunk_step(file, ranges[i][2], woff[i], wstats[i])
       IN  /\ wpc' = [wpc EXCEPT ![i] = s.pc]
           /\ woff' = [woff EXCEPT ![i] = s.off]
           /\ wstats' = [wstats EXCEPT ![i] = s.stats]
    /\ UNCHANGED <<file, n, mainpc, ranges, spawned, joinidx, stats, result,
                   out, lit, parsed, abc, folded>>

\* main, lines 34-39: the next thread in spawn order is joined; a panic of
\* the thread panics main ("thread panic"), a returned error is returned
\* by main, a table is folded into the global one.
MainJoin ==
    /\ mainpc = "join"
    /\ LET t == join_target(joinidx)
           o == join_outcome(wpc[t])
       IN  /\ join_ready(t)
           /\ IF o = "panic" THEN
                  /\ mainpc' = "failed"
                  /\ result' = "thread panic"
                  /\ UNCHANGED <<stats, joinidx>>
              ELSE IF o = "err" THEN
                  /\ mainpc' = "failed"
                  /\ result' = wpc[t]
                  /\ UNCHANGED <<stats, joinidx>>
              ELSE
                  /\ stats' = merge_table(stats, wstats[t])
                  /\ joinidx' = joinidx + 1
                  /\ mainpc' = IF joinidx = n THEN "print" ELSE "join"
                  /\ UNCHANGED result
    /\ UNCHANGED <<file, n, ranges, spawned, wpc, woff, wstats, out, lit, parsed, abc, folded>>

\* main, lines 40-42: print_stats writes the line, or fails on a key; then
\* main returns.
MainPrint ==
    /\ mainpc = "print"
    /\ LET p == print_stats(stats)
       IN  /\ out' = p.written
           /\ result' = IF p.ok THEN "ok" ELSE "err_utf8"
           /\ mainpc' = IF p.ok THEN "done" ELSE "failed"
    /\ UNCHANGED <<file, n, ranges, spawned, wpc, woff, wstats, joinidx, stats,
                   lit, parsed, abc, folded>>

Next ==
    \/ MainChunks
    \/ MainSpawn
    \/ \E i \in 1..n : WorkerStep(i)
    \/ MainJoin
    \/ MainPrint

Spec == Init /\ [][Next]_vars

\* Thread i can take a step: it is in the loop of chunk_stats and the
\* process has not ended.  This is ENABLED <<WorkerStep(i)>>_vars, since
\* chunk_step always moves the offset or leaves the loop.
CanStep(i) ==
    /\ i <= n
    /\ mainpc \notin {"done", "failed"}
    /\ wpc[i] = "running"

\* main can return from the join it is in: ENABLED <<MainJoin>>_vars.
CanJoin == mainpc = "join" /\ join_ready(join_target(joinidx))

\* main can run print_stats: ENABLED <<MainPrint>>_vars.
CanPrint == mainpc = "print"

\* The scheduler runs every thread that can take a step: main and each
\* spawned thread keep running until they end.  Weak fairness of the join,
\* of print_stats and of each thread's step is written out with its
\* enabling condition, WF_v(A) being []<>~ENABLED <<A>>_v \/ []<><<A>>_v.
Fairness ==
    /\ WF_vars(MainChunks)
    /\ WF_vars(MainSpawn)
    /\ []<>(~CanJoin) \/ []<><<MainJoin>>_vars
    /\ []<>(~CanPrint) \/ []<><<MainPrint>>_vars
    /\ \A i \in 1..MaxThreads :
          []<>(~CanStep(i)) \/ []<><<i <= n /\ WorkerStep(i)>>_vars

SpecLive == Spec /\ Fairness

\* ------------------------------------------------------ the parser alone

\* The well-formed literals: d.d and dd.d over the digits 0-9, with and
\* without a leading '-'.
Digits == 48..57

Literals ==
    LET unsigned ==
            { <<x, DOT, y>> : x \in Digits, y \in Digits }
            \cup { <<a, b, DOT, c>> : a \in Digits, b \in Digits, c \in Digits }
    IN  unsigned \cup { <<MINUS>> \o u : u \in unsigned }

\* Arbitrary slices: '-', '.', the digits 0 and 9, the bytes next to the
\* digits ('/' and ':') and a letter.
ProbeBytes == {45, 46, 47, 48, 57, 58, 97}

Probes == UNION { [1..k -> ProbeBytes] : k \in 0..MaxLitLen }

ParseInit ==
    /\ lit \in Literals \cup Probes
    /\ parsed = ParseIdle
    /\ file = <<>>
    /\ n = 1
    /\ mainpc = "chunks"
    /\ ranges = <<>>
    /\ spawned = 0
    /\ wpc = [i \in 1..n |-> "unspawned"]
    /\ woff = [i \in 1..n |-> 0]
    /\ wstats = [i \in 1..n |-> EmptyTable]
    /\ joinidx = 1
    /\ stats = EmptyTable
    /\ result = "none"
    /\ out = <<>>
    /\ abc = <<>>
    /\ folded = FoldIdle

\* parse_f32 is applied to the slice.
ParseStep ==
    /\ parsed = ParseIdle
    /\ parsed' = parse_f32(lit)
    /\ UNCHANGED <<lit, mainvars, abc, folded>>

SpecParse == ParseInit /\ [][ParseStep]_vars

\* ------------------------------------------------------- the merge alone

\* The Stats chunk_stats builds for one key from the values of its lines:
\* the singleton of the first, updated with each of the others in turn.
RECURSIVE stats_of(_)
stats_of(values) ==
    IF Len(values) = 1 THEN singleton(parse_f32(values[1]).val)
    ELSE update(stats_of(SubSeq(values, 1, Len(values) - 1)),
                parse_f32(values[Len(values)]).val)

\* The Stats of 2^24 lines of value 1.0: every partial sum is an integer
\* up to 2^24, which f32 holds exactly.
ManyOnes ==
    [min |-> F32(1, 0), max |-> F32(1, 0), sum |-> F32(1, 24), count |-> POW2[25]]

\* The Stats the harness merges: of one line, of two lines, of many.
SampleStats ==
    { stats_of(<<l>>) :
        l \in { <<MINUS, 49, 48, DOT, 48>>,        \* -10.0
                <<50, DOT, 49>>,                   \* 2.1
                <<49, 48, DOT, 48>>,               \* 10.0
                <<49, DOT, 48>>,                   \* 1.0
                <<MINUS, 57, 57, DOT, 57>> } }     \* -99.9
    \cup { stats_of(<<<<50, DOT, 49>>, <<57, 57, DOT, 57>>>>),   \* 2.1, 99.9
           ManyOnes }

\* The tables the harness merges: every table has or lacks the key "a",
\* with any of the Stats, and has or lacks the key "b".
SampleTables ==
    { [k \in K |-> IF k = <<97>> THEN s ELSE stats_of(<<<<MINUS, 50, DOT, 53>>>>)] :
        K \in SUBSET {<<97>>, <<98>>}, s \in SampleStats }

MergeInit ==
    /\ abc \in [1..3 -> SampleTables]
    /\ folded = FoldIdle
    /\ lit = <<>>
    /\ parsed = ParseIdle
    /\ file = <<>>
    /\ n = 1
    /\ mainpc = "chunks"
    /\ ranges = <<>>
    /\ spawned = 0
    /\ wpc = [i \in 1..n |-> "unspawned"]
    /\ woff = [i \in 1..n |-> 0]
    /\ wstats = [i \in 1..n |-> EmptyTable]
    /\ joinidx = 1
    /\ stats = EmptyTable
    /\ result = "none"
    /\ out = <<>>

\* The fold of main, lines 34-39, is applied to the three tables in each
\* grouping and order.
MergeStep ==
    /\ ~folded.done
    /\ folded' =
          [done |-> TRUE,
           left |-> merge_table(merge_table(abc[1], abc[2]), abc[3]),
           right |-> merge_table(abc[1], merge_table(abc[2], abc[3])),
           ab |-> merge_table(abc[1], abc[2]),
           ba |-> merge_table(abc[2], abc[1]),
           ident |-> merge_table(EmptyTable, abc[1])]
    /\ UNCHANGED <<abc, lit, parsed, mainvars>>

SpecMerge == MergeInit /\ [][MergeStep]_vars

\* ------------------------------------------------- what a file denotes

\* A value of the shape d.d or dd.d, with or without a leading '-'.
Unsigned(s) == IF Len(s) > 0 /\ s[1] = MINUS THEN Tail(s) ELSE s

IsLiteral(s) ==
    LET b == Unsigned(s)
    IN  /\ Len(b) \in {3, 4}
        /\ b[Len(b) - 1] = DOT
        /\ \A i \in 1..Len(b) : i # Len(b) - 1 => b[i] \in Digits

\* The number of tenths a literal denotes.
Denote(s) ==
    LET b == Unsigned(s)
        int == IF Len(b) = 3 THEN b[1] - 48 ELSE 10 * (b[1] - 48) + (b[2] - 48)
        frac == b[Len(b)] - 48
    IN  (IF Len(s) > Len(b) THEN -1 ELSE 1) * (10 * int + frac)

\* The offsets just after each newline of f, and 0: where its lines start.
LineStarts(f) == {0} \cup { p \in 1..Len(f) : f[p] = NL }

\* The lines of f, each as the offset of its first byte: a line start that
\* is not the end of the file.
LinesOf(f) == { p \in LineStarts(f) : p < Len(f) }

\* The bytes of the line starting at p, its newline excluded.
LineAt(f, p) ==
    LET e == IF \E q \in (p + 1)..Len(f) : f[q] = NL
             THEN CHOOSE q \in (p + 1)..Len(f) :
                    f[q] = NL /\ \A r \in (p + 1)..(q - 1) : f[r] # NL
             ELSE Len(f) + 1
    IN  SubSeq(f, p + 1, e - 1)

HasSemi(l) == \E j \in 1..Len(l) : l[j] = SEMI

\* The place of the first ';' of a line (past its end when it has none).
FirstSemi(l) ==
    IF HasSemi(l)
    THEN CHOOSE j \in 1..Len(l) : l[j] = SEMI /\ \A r \in 1..(j - 1) : l[r] # SEMI
    ELSE Len(l) + 1

KeyOf(l) == SubSeq(l, 1, FirstSemi(l) - 1)

ValueOf(l) == SubSeq(l, FirstSemi(l) + 1, Len(l))

\* Every line is key;value with a well-formed value.
ValidRecords(f) ==
    \A p \in LinesOf(f) : HasSemi(LineAt(f, p)) /\ IsLiteral(ValueOf(LineAt(f, p)))

\* A key that print_stats can decode: the model's bytes are ASCII or 0xFF.
IsText(k) == \A i \in 1..Len(k) : k[i] \in 0..127

\* The distinct keys of a file of valid records, and the lines bearing a key.
KeysOf(f) == { KeyOf(LineAt(f, p)) : p \in LinesOf(f) }

LinesWith(f, k) == { p \in LinesOf(f) : KeyOf(LineAt(f, p)) = k }

ValueAt(f, p) == Denote(ValueOf(LineAt(f, p)))

RECURSIVE SumOver(_, _)
SumOver(f, P) ==
    IF P = {} THEN 0
    ELSE LET p == CHOOSE q \in P : TRUE
         IN  ValueAt(f, p) + SumOver(f, P \ {p})

MinOver(f, P) == CHOOSE v \in { ValueAt(f, p) : p \in P } : \A p \in P : v <= ValueAt(f, p)

MaxOver(f, P) == CHOOSE v \in { ValueAt(f, p) : p \in P } : \A p \in P : v >= ValueAt(f, p)

\* The record a thread read last: the line that ends at its offset.
LastLineStart(i) ==
    CHOOSE p \in LineStarts(file) :
        p < woff[i] /\ \A q \in LineStarts(file) : q < woff[i] => q <= p

HasRead(i) == wpc[i] # "unspawned" /\ woff[i] > ranges[i][1]

LastRecord(i) == LineAt(file, LastLineStart(i))

\* ------------------------------------------------------------ the claims

\* C7: for every literal of shape d.d or dd.d over the digits 0-9, with or
\* without a leading '-', parse_f32 succeeds and returns the number of
\* tenths the literal denotes: sign * (10 * integer part + fractional digit).
C7_ParseExact ==
    (parsed # ParseIdle /\ IsLiteral(lit)) =>
        (parsed.kind = "some" /\ Tenths(parsed.val) = Denote(lit))

\* C7 witness: the longest literal, "-98.7", was parsed to -987 tenths.
C7_Witness ==
    /\ lit = <<MINUS, 57, 56, DOT, 55>>
    /\ parsed.kind = "some"
    /\ Tenths(parsed.val) = -987

\* C6: a value that is not of shape d.d or dd.d (after one optional '-')
\* makes the thread that read it end with the returned parse error, never
\* with a number and never abnormally.
C6_BadValueIsReturnedError ==
    \A i \in 1..n :
        (HasRead(i) /\ HasSemi(LastRecord(i)) /\ ~IsLiteral(ValueOf(LastRecord(i))))
            => wpc[i] = "err_parse"

\* C3: chunks returns exactly n ranges that start at 0, end at the length
\* of the file, are contiguous (end_i = start_{i+1}) and ordered
\* (start_i <= end_i), and every interior boundary is the length of the
\* file or a position whose preceding byte is a newline.
C3_RangesPartition ==
    mainpc # "chunks" =>
        /\ DOMAIN ranges = 1..n
        /\ ranges[1][1] = 0
        /\ ranges[n][2] = Len(file)
        /\ \A i \in 1..n : ranges[i][1] <= ranges[i][2]
        /\ \A i \in 1..(n - 1) :
              /\ ranges[i][2] = ranges[i + 1][1]
              /\ \/ ranges[i][2] = Len(file)
                 \/ (ranges[i][2] >= 1 /\ file[ranges[i][2]] = NL)

\* C3 witness: three ranges of a file, the first boundary after a newline
\* inside the file, the second at the end of the file (an empty last range).
C3_Witness ==
    /\ mainpc # "chunks"
    /\ n = 3
    /\ ranges[1][2] > 0
    /\ ranges[1][2] < Len(file)
    /\ ranges[2][2] = Len(file)
    /\ file[Len(file)] # NL

\* C4: once every thread is joined and merged, the keys of the global
\* table are the keys of the input and the count of each is the number of
\* input lines bearing that key.
C4_CountExact ==
    joinidx = n + 1 =>
        /\ DOMAIN stats = KeysOf(file)
        /\ \A k \in DOMAIN stats : stats[k].count = Cardinality(LinesWith(file, k))

\* C4 witness: a key counted twice whose two lines were read by two
\* different threads.
C4_Witness ==
    /\ joinidx = n + 1
    /\ \E k \in DOMAIN stats :
          /\ stats[k].count = 2
          /\ \E i, j \in 1..n : i # j /\ k \in DOMAIN wstats[i] /\ k \in DOMAIN wstats[j]

\* The table and the end of a single scan of the whole file.
SingleScan == chunk_stats(file, <<0, Len(file)>>)

\* C2: for every n the run builds the global table exactly when a single
\* scan of the whole file succeeds, and the table is then the one the
\* single scan builds: the same min, max, sum and count for every key.
\* The sum of a key is an f32 accumulated in the order of the ranges, range
\* by range, and f32 addition is not associative: the sum three threads
\* build for a;-10.0 a;2.1 a;10.0 is (-10.0 + (2.1 + 10.0)), the sum of
\* one scan is ((-10.0 + 2.1) + 10.0), and the two differ in the last bit.
C2_SameAsSingleScan ==
    /\ joinidx = n + 1 => (SingleScan.pc = "ok" /\ stats = SingleScan.stats)
    /\ (SingleScan.pc = "ok" /\ mainpc \in {"done", "failed"}) => joinidx = n + 1
    /\ ValidRecords(file) => SingleScan.pc = "ok"

\* What the claim C1 promises of the line written for file f, in tenths:
\* one entry per key, the least and the greatest value of the key, and for
\* avg the quotient sum / count to the one digit printed (within half a
\* tenth of it).
ExpectedLine(f, line) ==
    /\ Len(line) = Cardinality(KeysOf(f))
    /\ { line[i].name : i \in 1..Len(line) } = KeysOf(f)
    /\ \A i \in 1..Len(line) :
          LET P == LinesWith(f, line[i].name)
          IN  /\ line[i].stat.min = MinOver(f, P)
              /\ line[i].stat.max = MaxOver(f, P)
              /\ 2 * Abs(Cardinality(P) * line[i].stat.avg - SumOver(f, P))
                    <= Cardinality(P)

\* C1 as stated: every file whose lines are all key;value with a value of
\* shape d.d or dd.d makes the run succeed, with one entry per distinct key
\* holding the minimum, the maximum and sum / count of the key's values.
C1_Original ==
    ValidRecords(file) =>
        /\ mainpc # "failed"
        /\ mainpc = "done" =>
              (result = "ok" /\ Len(out) = 1 /\ ExpectedLine(file, out[1]))

\* C1 amended: the same, for the files whose keys are moreover text
\* (valid UTF-8).
C1_EndToEnd ==
    (ValidRecords(file) /\ \A k \in KeysOf(file) : IsText(k)) =>
        /\ mainpc # "failed"
        /\ mainpc = "done" =>
              (result = "ok" /\ Len(out) = 1 /\ ExpectedLine(file, out[1]))

\* C1 witness: a line of two entries was written by a run of several
\* threads, one key with different minimum and maximum.
C1_Witness ==
    /\ mainpc = "done"
    /\ n >= 2
    /\ Len(out[1]) = 2
    /\ \E i \in 1..2 : out[1][i].stat.min < out[1][i].stat.max

\* C5: a run that fails has written nothing, and a line is written only
\* by a run that succeeded with every record of the file accounted for:
\* every line lies in the range of exactly one thread, which scanned its
\* whole range and returned its table.
C5_NoOutputOnFailure ==
    /\ mainpc = "failed" => (out = <<>> /\ result \notin {"none", "ok"})
    /\ out # <<>> =>
          /\ mainpc = "done"
          /\ result = "ok"
          /\ ValidRecords(file)
          /\ \A i \in 1..n : wpc[i] = "ok" /\ woff[i] = ranges[i][2]
          /\ \A p \in LinesOf(file) :
                Cardinality({ i \in 1..n : ranges[i][1] <= p /\ p < ranges[i][2] }) = 1

\* C5 witness: every thread succeeded and was merged, a key then failed
\* to decode: the run failed and nothing was written.
C5_Witness ==
    /\ mainpc = "failed"
    /\ result = "err_utf8"
    /\ n >= 2
    /\ Cardinality(DOMAIN stats) = 2
    /\ out = <<>>

\* C8 as stated: main never ends, with the line written or with a failure,
\* while a spawned thread is still running.
C8_Original ==
    mainpc \in {"done", "failed"} => \A i \in 1..n : wpc[i] \in Finished

\* C8 amended: main never writes the line while a thread is still running,
\* and when it ends in failure every thread it has joined, the failed one
\* included, has ended; the threads after the failed one are not waited
\* for.
C8_JoinedBeforeEnd ==
    /\ mainpc \in {"print", "done"} => \A i \in 1..n : wpc[i] = "ok"
    /\ mainpc = "failed" => \A i \in 1..n : i <= joinidx => wpc[i] \in Finished

\* C8 witness: main ended on the failure of the first thread while the
\* two threads after it were still running.
C8_Witness ==
    /\ mainpc = "failed"
    /\ n = 3
    /\ joinidx = 1
    /\ wpc[2] = "running"
    /\ wpc[3] = "running"

\* C9 as stated: no table is folded into the global table before every
\* thread has completed or failed.
C9_Original ==
    joinidx > 1 => \A i \in 1..n : wpc[i] \in Finished

\* C9 amended: the tables are folded one at a time in spawn order; the
\* table of a thread is folded only after that thread has scanned its
\* whole range and returned, and the global table holds the keys of the
\* tables folded so far and no others.
C9_FoldAfterOwnJoin ==
    /\ \A i \in 1..n : i < joinidx => (wpc[i] = "ok" /\ woff[i] = ranges[i][2])
    /\ DOMAIN stats = UNION { DOMAIN wstats[i] : i \in 1..(joinidx - 1) }

\* C9 witness: the table of the first thread is in the global table while
\* the second thread is still scanning.
C9_Witness ==
    /\ n >= 2
    /\ joinidx = 2
    /\ DOMAIN stats # {}
    /\ wpc[2] = "running"
    /\ woff[2] < ranges[2][2]

\* The run with no concurrency: each range is scanned to its end and
\* joined before the next one is looked at.
RECURSIVE SequentialRun(_, _, _, _)
SequentialRun(f, rs, i, g) ==
    IF i > n
    THEN LET p == print_stats(g)
         IN  [result |-> IF p.ok THEN "ok" ELSE "err_utf8", out |-> p.written]
    ELSE LET r == chunk_stats(f, rs[i])
         IN  IF r.pc = "panicked" THEN [result |-> "thread panic", out |-> <<>>]
             ELSE IF r.pc # "ok" THEN [result |-> r.pc, out |-> <<>>]
             ELSE SequentialRun(f, rs, i + 1, merge_table(g, r.stats))

\* C10: for a file and an n, the line written or the failure reported is
\* the same under every interleaving of the threads: it is what the run
\* with no concurrency gives.
C10_ResultDeterministic ==
    mainpc \in {"done", "failed"} =>
        [result |-> result, out |-> out]
            = SequentialRun(file, chunks(file, n), 1, EmptyTable)

\* C10 witness: two threads failed in different ways, the second one
\* possibly first in time; the failure reported is that of the first.
C10_Witness ==
    /\ mainpc = "failed"
    /\ n >= 2
    /\ wpc[1] = "err_parse"
    /\ wpc[2] = "err_semicolon"
    /\ result = "err_parse"

\* A Stats with its sum read in tenths, and a table of such.
StatsView(st) ==
    [min |-> st.min, max |-> st.max, sum |-> Tenths(st.sum), count |-> st.count]

TableView(t) == [k \in DOMAIN t |-> StatsView(t[k])]

\* C11: merge is associative and commutative: three tables folded key by
\* key as (A + B) + C and as A + (B + C), and two as A + B and as B + A,
\* give the same min, max and count for every key, and the same sum read
\* in tenths.
C11_MergeAssocComm ==
    folded.done =>
        /\ TableView(folded.left) = TableView(folded.right)
        /\ TableView(folded.ab) = TableView(folded.ba)

\* C12: a thread that panicked makes the run fail: main never gets past
\* its join, so its range is never skipped and nothing is written from the
\* tables of the other threads; when main joins it, main ends with
\* "thread panic".
C12_PanicFailsRun ==
    \A i \in 1..n :
        wpc[i] = "panicked" =>
            /\ joinidx <= i
            /\ mainpc \notin {"print", "done"}
            /\ out = <<>>
            /\ (mainpc = "failed" /\ joinidx = i) => result = "thread panic"

\* C12 witness: the first thread returned its table and was folded, the
\* second panicked: main ended with "thread panic" and wrote nothing.
C12_Witness ==
    /\ n >= 2
    /\ wpc[1] = "ok"
    /\ wpc[2] = "panicked"
    /\ joinidx = 2
    /\ DOMAIN stats # {}
    /\ mainpc = "failed"
    /\ result = "thread panic"
    /\ out = <<>>

\* a is before b in byte order: at the first place where they differ a has
\* the smaller byte, or a ends there and b goes on.
ByteLess(a, b) ==
    \E i \in 1..(Len(a) + 1) :
        /\ i <= Len(b)
        /\ \A j \in 1..(i - 1) : a[j] = b[j]
        /\ (i = Len(a) + 1 \/ a[i] < b[i])

\* C13: in a written line the keys are in strictly ascending byte order,
\* so that no key is written twice.
C13_KeysAscending ==
    out # <<>> =>
        \A i, j \in 1..Len(out[1]) :
            i < j => ByteLess(out[1][i].name, out[1][j].name)

\* C13 witness: the first line of the file bears the key "b" and a later
\* one the key "a", read by different threads and folded in that order;
\* the line written has "a" before "b".
C13_Witness ==
    /\ mainpc = "done"
    /\ n >= 2
    /\ DOMAIN wstats[1] = {<<98>>}
    /\ \E i \in 2..n : <<97>> \in DOMAIN wstats[i]
    /\ Len(out[1]) = 2
    /\ out[1][1].name = <<97>>
    /\ out[1][2].name = <<98>>

\* The lines of f whose first byte lies in [a, b), and those bearing key k.
RangeLines(f, a, b) == { p \in LinesOf(f) : a <= p /\ p < b }

RangeLinesWith(f, a, b, k) == { p \in RangeLines(f, a, b) : KeyOf(LineAt(f, p)) = k }

\* C14: a thread scans exactly the records whose first byte lies in its
\* range.  Its range starts where a line starts (or at the end of the
\* file); its offset is always a line start within the range or the end of
\* the range, never beyond it; while it runs and when it returns, its table
\* counts exactly the lines between the start of the range and its offset;
\* and it returns with its offset at the end of the range.
C14_ExactlyItsRange ==
    \A i \in 1..n :
        wpc[i] # "unspawned" =>
            LET start == ranges[i][1]
                end == ranges[i][2]
            IN  /\ start \in LineStarts(file) \cup {Len(file)}
                /\ start <= woff[i]
                /\ woff[i] <= end
                /\ woff[i] \in LineStarts(file) \cup {end}
                /\ wpc[i] = "ok" => woff[i] = end
                /\ wpc[i] \in {"running", "ok"} =>
                      /\ DOMAIN wstats[i]
                            = { KeyOf(LineAt(file, p)) : p \in RangeLines(file, start, woff[i]) }
                      /\ \A k \in DOMAIN wstats[i] :
                            wstats[i][k].count
                                = Cardinality(RangeLinesWith(file, start, woff[i], k))

\* C14 witness: of three threads the first returned at the end of its
\* range, with the file going on after it, and the second returned having
\* read the two records of its range.
C14_Witness ==
    /\ n = 3
    /\ wpc[1] = "ok"
    /\ woff[1] = ranges[1][2]
    /\ ranges[1][2] > 0
    /\ wpc[2] = "ok"
    /\ woff[2] = ranges[2][2]
    /\ Cardinality(RangeLines(file, ranges[2][1], ranges[2][2])) = 2

\* C15: the default Stats is the identity of merge: a Stats merged into
\* the default is that Stats, field for field, and so a table folded into
\* the empty global table is that table.
C15_DefaultIsIdentity ==
    folded.done =>
        /\ \A k \in DOMAIN abc[1] : merge(default, abc[1][k]) = abc[1][k]
        /\ folded.ident = abc[1]

\* C15 witness: a table of two keys, the Stats of one built from two
\* values, was folded into the empty table.
C15_Witness ==
    /\ folded.done
    /\ DOMAIN abc[1] = {<<97>>, <<98>>}
    /\ abc[1][<<97>>].count = 2
    /\ f32_lt(abc[1][<<97>>].min, abc[1][<<97>>].max)
    /\ folded.ident = abc[1]

\* k * x <= j * y, for integers k, j >= 0 and f32 x, y, decided exactly:
\* both sides are brought to the smaller of the two exponents.
ExactLeq(k, x, j, y) ==
    LET e0 == IF x.e < y.e THEN x.e ELSE y.e
    IN  k * x.m * Pow2(x.e - e0) <= j * y.m * Pow2(y.e - e0)

\* Every Stats of the tables of the threads and of the global table.
AllStats ==
    UNION { { wstats[i][k] : k \in DOMAIN wstats[i] } : i \in 1..n }
    \cup { stats[k] : k \in DOMAIN stats }

\* C16 as stated: every Stats of every table has count >= 1, min <= max and
\* count * min <= sum <= count * max.
C16_Original ==
    \A st \in AllStats :
        /\ st.count >= 1
        /\ ExactLeq(1, st.min, 1, st.max)
        /\ ExactLeq(st.count, st.min, 1, st.sum)
        /\ ExactLeq(1, st.sum, st.count, st.max)

\* C16 amended: every Stats of every table has count >= 1 and min <= max,
\* and count * min <= sum <= count * max holds of the three values read to
\* the nearest tenth: the sum carries the rounding of the f32 additions
\* that built it.
C16_StatsInvariant ==
    \A st \in AllStats :
        /\ st.count >= 1
        /\ ~f32_lt(st.max, st.min)
        /\ st.count * Tenths(st.min) <= Tenths(st.sum)
        /\ Tenths(st.sum) <= st.count * Tenths(st.max)

\* C16 witness: the global table handed to print_stats holds a Stats of
\* three records merged from two threads, its minimum below its maximum.
C16_Witness ==
    /\ mainpc = "print"
    /\ \E k \in DOMAIN stats :
          /\ stats[k].count = 3
          /\ f32_lt(stats[k].min, stats[k].max)
          /\ Cardinality({ i \in 1..n : k \in DOMAIN wstats[i] }) = 2

\* C17: a thread whose range is empty reads nothing and returns an empty
\* table; a file of valid records with text keys and fewer lines than
\* threads makes the run succeed; and the empty file makes the run write
\* the line of no entries, "{}", for every n.
C17_EmptyRange ==
    /\ \A i \in 1..n :
          (wpc[i] # "unspawned" /\ ranges[i][1] = ranges[i][2]) =>
              /\ wpc[i] \in {"running", "ok"}
              /\ wstats[i] = EmptyTable
    /\ (/\ mainpc \in {"done", "failed"}
        /\ ValidRecords(file)
        /\ \A k \in KeysOf(file) : IsText(k)
        /\ n > Cardinality(LinesOf(file))) =>
           (mainpc = "done" /\ result = "ok")
    /\ (mainpc \in {"done", "failed"} /\ file = <<>>) =>
           (mainpc = "done" /\ result = "ok" /\ out = << <<>> >>)

\* C17 witness: three threads over a file of one record, the ranges of
\* the second and the third empty: both returned empty tables and the line
\* written has the one entry.
C17_Witness ==
    /\ mainpc = "done"
    /\ n = 3
    /\ Cardinality(LinesOf(file)) = 1
    /\ ranges[2][1] = ranges[2][2]
    /\ ranges[3][1] = ranges[3][2]
    /\ wpc[2] = "ok"
    /\ wpc[3] = "ok"
    /\ wstats[2] = EmptyTable
    /\ Len(out[1]) = 1

\* The last record of the file has no newline after it.
Unterminated == Len(file) > 0 /\ file[Len(file)] # NL

\* The single scan of the file with the missing newline supplied.
TerminatedScan == chunk_stats(file \o <<NL>>, <<0, Len(file) + 1>>)

\* C18: a file whose last record has no newline after it is aggregated as
\* the same file with the newline: for every n the run builds its global
\* table exactly when the scan of the terminated file succeeds, the table
\* has the same keys with the same min, max and count and the same sum in
\* tenths, and the last record lies in the range of exactly one thread.
C18_UnterminatedLastRecord ==
    Unterminated =>
        /\ joinidx = n + 1 =>
              (TerminatedScan.pc = "ok" /\ TableView(stats) = TableView(TerminatedScan.stats))
        /\ (TerminatedScan.pc = "ok" /\ mainpc \in {"done", "failed"}) => joinidx = n + 1
        /\ mainpc # "chunks" =>
              \E p \in LinesOf(file) :
                  /\ \A q \in LinesOf(file) : q <= p
                  /\ Cardinality({ i \in 1..n : ranges[i][1] <= p /\ p < ranges[i][2] }) = 1

\* C18 witness: a file of one record without a newline and three threads;
\* both boundary candidates fell inside the record and were advanced to the
\* end of the file, and the line written has the one entry.
C18_Witness ==
    /\ mainpc = "done"
    /\ n = 3
    /\ Unterminated
    /\ ranges = << <<0, Len(file)>>, <<Len(file), Len(file)>>, <<Len(file), Len(file)>> >>
    /\ Len(out[1]) = 1
    /\ stats[out[1][1].name].count = 1

\* The evaluation of the loop that thread i is about to make moves its
\* offset forward, within the file, or leaves the loop.
Advances(i) ==
    LET s == chunk_step(file, ranges[i][2], woff[i], wstats[i])
    IN  /\ s.off > woff[i] \/ s.pc # "running"
        /\ s.off <= Len(file)

\* main has ended: the line is written or the failure is reported.
Terminal == mainpc \in {"done", "failed"}

\* C19 as stated: every evaluation of the loop advances or leaves, every
\* thread eventually completes or fails, and main eventually ends.
C19_Original ==
    /\ [](\A i \in 1..n : CanStep(i) => Advances(i))
    /\ \A i \in 1..MaxThreads : <>(i <= n => wpc[i] \in Finished)
    /\ <>Terminal

\* C19 amended: every evaluation of the loop advances or leaves, and
\* eventually main has ended and every thread it joined has completed or
\* failed; the threads after a failed one end with the process, wherever
\* they are.
C19_Terminates ==
    /\ [](\A i \in 1..n : CanStep(i) => Advances(i))
    /\ <>(Terminal /\ \A i \in 1..n : i <= joinidx => wpc[i] \in Finished)

\* C19 witness: three threads each read a record of the file and returned,
\* and main wrote the line.
C19_Witness ==
    /\ mainpc = "done"
    /\ n = 3
    /\ \A i \in 1..n : wpc[i] = "ok" /\ woff[i] > ranges[i][1]

\* The lines of f that are blank: a newline where a record would start.
BlankLines(f) == { p \in LinesOf(f) : LineAt(f, p) = <<>> }

\* Every line of f that is not blank is key;value with a well-formed value.
OnlyBlanksWrong(f) ==
    \A p \in LinesOf(f) \ BlankLines(f) :
        HasSemi(LineAt(f, p)) /\ IsLiteral(ValueOf(LineAt(f, p)))

\* C20: a blank line is never skipped.  A thread that has read one has
\* stopped there with the missing-delimiter error; a run over a file with a
\* blank line, for every n, never reaches print_stats, writes nothing, and
\* ends only in failure, which is the missing-delimiter error when the
\* blank lines are all that is wrong with the file.
C20_BlankLineFailsRun ==
    /\ \A i \in 1..n :
          (HasRead(i) /\ LastRecord(i) = <<>>) => wpc[i] = "err_semicolon"
    /\ BlankLines(file) # {} =>
          /\ mainpc \notin {"print", "done"}
          /\ out = <<>>
          /\ result \notin {"ok", "err_utf8"}
          /\ (mainpc = "failed" /\ OnlyBlanksWrong(file)) =>
                 result = "err_semicolon"

\* C20 witness: the file a;2.1 with one more newline after its record, two
\* threads; the first returned its table, the second read the blank line,
\* and main ended with the missing-delimiter error and nothing written.
C20_Witness ==
    /\ file = <<97, SEMI, 50, DOT, 49, NL, NL>>
    /\ n = 2
    /\ wpc = <<"ok", "err_semicolon">>
    /\ woff[2] = Len(file)
    /\ mainpc = "failed"
    /\ result = "err_semicolon"
    /\ out = <<>>

====
